---- MODULE Spec2Model ----
(***************************************************************************)
(* State-machine model of the task-management service: the user router     *)
(* (register, login, refresh-token), the token helpers of auth.py and the  *)
(* task router.  The relational store is the pair of tables users/tasks.   *)
(* Every request handler is one action, except register, whose existence   *)
(* check and commit are two statements against the shared database and    *)
(* are interleaved between worker processes.                               *)
(***************************************************************************)
EXTENDS Integers, Sequences, FiniteSets, TLC

VARIABLES users, tasks, now, pc, resp

vars == <<users, tasks, now, pc, resp>>

(***************************************************************************)
(* Bounds of the model.                                                    *)
(***************************************************************************)
MaxUsers == 2
MaxTasks == 2
TicksPerSecond == 2
Window == 2
MaxUses == 2

Workers == {"w1", "w2"}
Names == {"al", "alice"}
Passwords == {"short", "secret1", "hunter22"}
Subjects == {"alice", "bob"}
Salts == {"salt"}

(* Python's None, for an absent claim or an absent row. *)
NONE == "None"

(***************************************************************************)
(* auth.py: constants, clock and password hashing.                         *)
(***************************************************************************)
ACCESS_TOKEN_EXPIRE_MINUTES == 30
REFRESH_TOKEN_EXPIRE_DAYS == 7

AccessTTL == ACCESS_TOKEN_EXPIRE_MINUTES * 60 * TicksPerSecond
RefreshTTL == REFRESH_TOKEN_EXPIRE_DAYS * 24 * 60 * 60 * TicksPerSecond

(* The instants the clock is sampled at: a window of ticks after the start *)
(* and after each of the two lifetimes.                                    *)
Instants == {b + k : b \in {0, AccessTTL, RefreshTTL}, k \in 0..Window}

(* A datetime becomes a JWT NumericDate in whole seconds (truncated).      *)
ToSeconds(t) == t \div TicksPerSecond

HashPassword(password, salt) == [salt |-> salt, digest |-> password]

VerifyPassword(plain, hashed) == hashed.digest = plain

CreateAccessToken(sub, t) ==
    [sub |-> sub, type |-> "access", iat |-> ToSeconds(t),
     exp |-> ToSeconds(t + AccessTTL), sig |-> TRUE]

CreateRefreshToken(sub, t) ==
    [sub |-> sub, type |-> "refresh", iat |-> ToSeconds(t),
     exp |-> ToSeconds(t + RefreshTTL), sig |-> TRUE]

(* jwt.decode that verifies the signature and never looks at exp. *)
JwtDecodeNoExpiry(tok, t) == IF ~tok.sig THEN "JWTError" ELSE "ok"

(* jwt.decode: the signature is verified, then exp against the clock.      *)
JwtDecode(tok, t) ==
    IF ~tok.sig THEN "JWTError"
    ELSE IF tok.exp < ToSeconds(t) THEN "JWTError"
    ELSE "ok"

(***************************************************************************)
(* The users table and its queries.                                        *)
(***************************************************************************)
NoUser == [id |-> 0, username |-> NONE,
           hashed_password |-> [salt |-> NONE, digest |-> NONE]]

(* db.query(User).filter(User.username == username).first() *)
GetUserByUsername(table, username) ==
    LET hits == {i \in 1..Len(table) : table[i].username = username}
    IN  IF hits = {} THEN NoUser
        ELSE table[CHOOSE i \in hits : \A j \in hits : i <= j]

AuthenticateUser(table, username, password) ==
    LET user == GetUserByUsername(table, username)
    IN  IF user = NoUser THEN NoUser
        ELSE IF ~VerifyPassword(password, user.hashed_password) THEN NoUser
        ELSE user

(***************************************************************************)
(* Exceptions and their handlers.                                          *)
(***************************************************************************)
Outcome(status, detail, user) ==
    [status |-> status, detail |-> detail, user |-> user]

CredentialsException ==
    Outcome(401, "Could not validate credentials", NoUser)

(* The body of the try block of get_current_user: what it returns or       *)
(* raises.  raised is the class of the exception, "" when it returns.      *)
GetCurrentUserBody(tok, t, table) ==
    IF JwtDecode(tok, t) # "ok"
    THEN [raised |-> "JWTError", out |-> CredentialsException]
    ELSE IF tok.sub = NONE
    THEN [raised |-> "HTTPException", out |-> CredentialsException]
    ELSE IF tok.type # "access"
    THEN [raised |-> "HTTPException",
          out |-> Outcome(401, "Invalid token type", NoUser)]
    ELSE IF GetUserByUsername(table, tok.sub) = NoUser
    THEN [raised |-> "HTTPException", out |-> CredentialsException]
    ELSE [raised |-> "",
          out |-> Outcome(200, "", GetUserByUsername(table, tok.sub))]

(* except JWTError / except Exception of get_current_user: HTTPException   *)
(* is an Exception, so the second clause catches what the body raised.     *)
GetCurrentUser(tok, t, table) ==
    LET r == GetCurrentUserBody(tok, t, table)
    IN  IF r.raised = "" THEN r.out
        ELSE IF r.raised = "JWTError" THEN CredentialsException
        ELSE Outcome(500, "Internal server error during authentication", NoUser)

(* validate_refresh_token without its check of the type claim. *)
ValidateRefreshTokenAnyType(tok, t) ==
    IF tok.sig /\ tok.exp >= ToSeconds(t)
    THEN Outcome(200, "", NoUser)
    ELSE Outcome(401, "Invalid refresh token", NoUser)

(* validate_refresh_token refusing a token the previous call accepted. *)
ValidateRefreshTokenSingleUse(tok, t) ==
    IF ~tok.sig \/ tok.exp < ToSeconds(t)
    THEN Outcome(401, "Invalid refresh token", NoUser)
    ELSE IF tok.type # "refresh"
    THEN Outcome(401, "Invalid token type", NoUser)
    ELSE IF resp.op = "refresh_token" /\ resp.status = 200 /\ resp.token = tok
    THEN Outcome(401, "Invalid refresh token", NoUser)
    ELSE Outcome(200, "", NoUser)

ValidateRefreshToken(tok, t) ==
    IF JwtDecode(tok, t) # "ok"
    THEN Outcome(401, "Invalid refresh token", NoUser)
    ELSE IF tok.type # "refresh"
    THEN Outcome(401, "Invalid token type", NoUser)
    ELSE Outcome(200, "", NoUser)

(***************************************************************************)
(* schema.py: the response models, and FastAPI's serialisation of a        *)
(* handler's return value through its response_model.                      *)
(***************************************************************************)
EmptyBody == [f \in {} |-> ""]

TokenResponse ==
    [fields |-> {"access_token", "token_type"},
     required |-> {"access_token", "token_type"},
     defaults |-> EmptyBody]

UserRegisterResponse ==
    [fields |-> {"message", "username", "access_token", "token_type"},
     required |-> {"message", "username", "access_token"},
     defaults |-> [token_type |-> "Bearer"]]

(* A missing required field is a response validation error (500); fields   *)
(* the model does not declare are dropped.                                 *)
Serialize(model, body) ==
    IF ~(model.required \subseteq DOMAIN body)
    THEN [status |-> 500, detail |-> "Internal Server Error", body |-> EmptyBody]
    ELSE [status |-> 200, detail |-> "",
          body |-> [f \in ((DOMAIN body) \cap model.fields)
                             \cup DOMAIN model.defaults |->
                       IF f \in DOMAIN body THEN body[f] ELSE model.defaults[f]]]

(***************************************************************************)
(* Requests and responses.  resp is the last response sent, with the       *)
(* request it answers: the token or the credentials presented, the instant *)
(* it was handled at and the size of the users table at that instant (the  *)
(* table only grows, so its first nusers rows are the table the handler    *)
(* saw).  minted is the instant the server minted the presented token at,  *)
(* or -1 for a token the server did not mint; uses counts the consecutive  *)
(* successful refreshes of one token.                                      *)
(***************************************************************************)
NoToken == [sub |-> NONE, type |-> NONE, iat |-> 0, exp |-> 0, sig |-> FALSE]

NoResp ==
    [op |-> "none", status |-> 0, detail |-> "", body |-> EmptyBody,
     tasks |-> {}, user |-> NoUser, token |-> NoToken, username |-> NONE,
     password |-> NONE, at |-> 0, nusers |-> 0, minted |-> -1, uses |-> 0,
     task_id |-> 0, query |-> <<>>, search_by |-> NONE, case_sensitive |-> FALSE]

Request(op) == [NoResp EXCEPT !.op = op, !.at = now, !.nusers = Len(users)]

Answer(req, status, detail) == [req EXCEPT !.status = status, !.detail = detail]

Idle == [state |-> "idle", username |-> NONE, password |-> NONE]

(* Tokens a client can present: one with a bad signature, validly signed   *)
(* ones (the signing key is a constant of auth.py) of either type for a    *)
(* subject that registers and for one that never does, one without a sub   *)
(* claim, one without a type claim; and the tokens the client holds: the   *)
(* access token of the last response, and the token it last presented.     *)
Signed(sub, type, exp) ==
    [sub |-> sub, type |-> type, iat |-> 0, exp |-> exp, sig |-> TRUE]

CraftedTokens ==
    {[NoToken EXCEPT !.sub = "alice", !.type = "access"],
     Signed("alice", "access", ToSeconds(AccessTTL)),
     Signed("bob", "access", ToSeconds(AccessTTL)),
     Signed(NONE, "access", ToSeconds(AccessTTL)),
     Signed("alice", NONE, ToSeconds(AccessTTL)),
     Signed("alice", "refresh", ToSeconds(RefreshTTL)),
     Signed("bob", "refresh", ToSeconds(RefreshTTL))}

Held ==
    (IF resp.status = 200 /\ "access_token" \in DOMAIN resp.body
     THEN {[token |-> resp.body["access_token"], minted |-> resp.at]}
     ELSE {})
    \cup (IF resp.minted >= 0
          THEN {[token |-> resp.token, minted |-> resp.minted]}
          ELSE {})

Presentable == {[token |-> k, minted |-> -1] : k \in CraftedTokens} \cup Held

Init ==
    /\ users = <<>>
    /\ tasks = {}
    /\ now = 0
    /\ pc = [w \in Workers |-> Idle]
    /\ resp = NoResp

(***************************************************************************)
(* user.py: register.  The handler validates, queries for the username,    *)
(* and only then inserts and commits; the users table has no unique        *)
(* constraint on username (model.py), so the commit never fails.           *)
(***************************************************************************)
Pending == {w \in Workers : pc[w].state = "commit"}

RegisterCheck(w, username, password) ==
    /\ pc[w].state = "idle"
    /\ LET req == [Request("register") EXCEPT !.username = username,
                                              !.password = password]
       IN  IF Len(username) < 3
           THEN /\ resp' = Answer(req, 400,
                        "Username must be at least 3 characters long")
                /\ pc' = pc
           ELSE IF Len(password) < 6
           THEN /\ resp' = Answer(req, 400,
                        "Password must be at least 6 characters long")
                /\ pc' = pc
           ELSE IF GetUserByUsername(users, username) # NoUser
           THEN /\ resp' = Answer(req, 400, "Username already exists")
                /\ pc' = pc
           ELSE /\ Len(users) + Cardinality(Pending) < MaxUsers
                /\ resp' = resp
                /\ pc' = [pc EXCEPT ![w] = [state |-> "commit",
                              username |-> username, password |-> password]]
    /\ UNCHANGED <<users, tasks, now>>

RegisterCommit(w) ==
    /\ pc[w].state = "commit"
    /\ \E salt \in Salts :
         LET new_user == [id |-> Len(users) + 1,
                          username |-> pc[w].username,
                          hashed_password |-> HashPassword(pc[w].password, salt)]
             returned == [message |-> "User registered successfully",
                          username |-> new_user.username]
             sent == Serialize(UserRegisterResponse, returned)
             req == [Request("register") EXCEPT !.username = pc[w].username,
                                                !.password = pc[w].password,
                                                !.user = new_user]
         IN  /\ users' = Append(users, new_user)
             /\ resp' = [Answer(req, sent.status, sent.detail)
                            EXCEPT !.body = sent.body]
    /\ pc' = [pc EXCEPT ![w] = Idle]
    /\ UNCHANGED <<tasks, now>>

(***************************************************************************)
(* user.py: login and refresh-token.                                       *)
(***************************************************************************)
Login(username, password) ==
    LET req == [Request("login") EXCEPT !.username = username,
                                        !.password = password]
        user == AuthenticateUser(users, username, password)
    IN  IF user = NoUser
        THEN /\ resp' = Answer(req, 401, "Incorrect username or password")
             /\ UNCHANGED <<users, tasks, now, pc>>
        ELSE LET returned ==
                     [access_token |-> CreateAccessToken(user.username, now),
                      refresh_token |-> CreateRefreshToken(user.username, now),
                      token_type |-> "bearer",
                      username |-> user.username]
                 sent == Serialize(TokenResponse, returned)
             IN  /\ resp' = [Answer(req, sent.status, sent.detail)
                                EXCEPT !.body = sent.body, !.user = user]
                 /\ UNCHANGED <<users, tasks, now, pc>>

RefreshToken(presented) ==
    LET tok == presented.token
        req == [Request("refresh_token") EXCEPT !.token = tok,
                                                !.minted = presented.minted]
        valid == ValidateRefreshToken(tok, now)
        user == GetUserByUsername(users, tok.sub)
    IN  /\ IF valid.status # 200
           THEN resp' = Answer(req, valid.status, valid.detail)
           ELSE IF user = NoUser
           THEN resp' = Answer(req, 401, "User not found")
           ELSE LET returned ==
                        [access_token |-> CreateAccessToken(tok.sub, now),
                         refresh_token |-> tok,
                         token_type |-> "bearer",
                         username |-> tok.sub]
                    sent == Serialize(TokenResponse, returned)
                    again == /\ resp.op = "refresh_token"
                             /\ resp.status = 200
                             /\ resp.token = tok
                IN  resp' = [Answer(req, sent.status, sent.detail)
                               EXCEPT !.body = sent.body, !.user = user,
                                      !.uses = IF again /\ resp.uses < MaxUses
                                               THEN resp.uses + 1
                                               ELSE IF again THEN MaxUses ELSE 1]
        /\ UNCHANGED <<users, tasks, now, pc>>

(***************************************************************************)
(* tasks.py: get_task, behind Depends(get_current_user).                   *)
(***************************************************************************)
OwnedBy(user) == {t \in tasks : t.owner_id = user.id}

GetTask(presented) ==
    LET tok == presented.token
        req == [Request("get_task") EXCEPT !.token = tok,
                                           !.minted = presented.minted]
        auth == GetCurrentUser(tok, now, users)
    IN  /\ IF auth.status # 200
           THEN resp' = Answer(req, auth.status, auth.detail)
           ELSE resp' = [Answer(req, 200, "") EXCEPT !.user = auth.user,
                                                     !.tasks = OwnedBy(auth.user)]
        /\ UNCHANGED <<users, tasks, now, pc>>

(***************************************************************************)
(* tasks.py: the other task handlers.  Text is a sequence of characters.   *)
(***************************************************************************)
Titles == {<<"A">>, <<"a", "B">>}
Descriptions == {<<"b">>}
PageLimits == {0, 1, 2}

(* The requests sent to /search: query, case_sensitive, search_by. *)
SearchRequests ==
    {<<q, cs, "title">> : q \in {<<"B">>}, cs \in BOOLEAN}
    \cup {<<q, cs, "description">> : q \in {<<"B">>}, cs \in BOOLEAN}
    \cup {<<q, FALSE, "all">> : q \in {<<"B">>, <<"z">>}}
    \cup {<< <<"a">>, TRUE, "all">>, << <<"B">>, FALSE, "owner">>}

(* Access tokens of the two users, and a refresh token the gate refuses. *)
TaskTokens ==
    {[token |-> Signed("alice", "access", ToSeconds(AccessTTL)), minted |-> -1],
     [token |-> Signed("bob", "access", ToSeconds(AccessTTL)), minted |-> -1]}

RefusedTokens ==
    {[token |-> Signed("alice", "refresh", ToSeconds(RefreshTTL)), minted |-> -1]}

TaskIds == 1..MaxTasks

(* Absent field of a TaskUpdate, and the TaskUpdate bodies sent. *)
Unset == <<"None">>

TaskUpdates ==
    {[title |-> t, description |-> Unset, completed |-> "None"] : t \in Titles}
    \cup {[title |-> Unset, description |-> Unset, completed |-> "True"]}
    \cup {[title |-> <<"A">>, description |-> d, completed |-> "False"] :
             d \in Descriptions}

Lower(ch) == IF ch = "A" THEN "a" ELSE IF ch = "B" THEN "b" ELSE ch

LowerText(text) == [i \in 1..Len(text) |-> Lower(text[i])]

(* SQL LIKE: % matches any run of characters, _ any one character. *)
RECURSIVE Like(_, _)
Like(pattern, text) ==
    IF pattern = <<>> THEN text = <<>>
    ELSE IF Head(pattern) = "%"
    THEN Like(Tail(pattern), text) \/ (text # <<>> /\ Like(pattern, Tail(text)))
    ELSE /\ text # <<>>
         /\ (Head(pattern) = "_" \/ Head(pattern) = Head(text))
         /\ Like(Tail(pattern), Tail(text))

(* column.like(f"%{query}%") and column.ilike(f"%{query}%") *)
Matches(text, query, case_sensitive) ==
    IF case_sensitive
    THEN Like(<<"%">> \o query \o <<"%">>, text)
    ELSE Like(<<"%">> \o LowerText(query) \o <<"%">>, LowerText(text))

(* The query by id without its filter on owner_id. *)
TaskOfAnyOwner(user, task_id) == {t \in tasks : t.id = task_id}

(* db.query(Task).filter(Task.id == task_id, Task.owner_id == user.id).first() *)
OwnTask(user, task_id) == {t \in tasks : t.id = task_id /\ t.owner_id = user.id}

(* The integer primary key of a new row: one more than the largest id. *)
NextTaskId ==
    IF tasks = {} THEN 1
    ELSE (CHOOSE t \in tasks : \A o \in tasks : o.id <= t.id).id + 1

(* Depends(get_current_user): what the dependency raised is the response, *)
(* and the handler does not run.                                           *)
Denied(req, auth) ==
    /\ resp' = Answer(req, auth.status, auth.detail)
    /\ UNCHANGED <<users, tasks, now, pc>>

TaskRequest(op, presented) ==
    [Request(op) EXCEPT !.token = presented.token, !.minted = presented.minted]

CreateTask(presented, title, description, completed) ==
    LET req == TaskRequest("create_task", presented)
        auth == GetCurrentUser(presented.token, now, users)
        new_task == [id |-> NextTaskId, title |-> title,
                     description |-> description, completed |-> completed,
                     owner_id |-> auth.user.id]
    IN  IF auth.status # 200 THEN Denied(req, auth)
        ELSE
           /\ IF \E t \in tasks : t.title = title /\ t.owner_id = auth.user.id
              THEN /\ resp' = [Answer(req, 400,
                          "Task with this title already exists for this user")
                                 EXCEPT !.user = auth.user]
                   /\ tasks' = tasks
              ELSE /\ NextTaskId \in TaskIds
                   /\ tasks' = tasks \cup {new_task}
                   /\ resp' = [Answer(req, 200, "") EXCEPT
                                 !.user = auth.user,
                                 !.task_id = new_task.id,
                                 !.tasks = {new_task},
                                 !.body = [message |-> "Task created successfully"]]
           /\ UNCHANGED <<users, now, pc>>

GetTaskById(presented, task_id) ==
    LET req == [TaskRequest("get_task_by_id", presented) EXCEPT !.task_id = task_id]
        auth == GetCurrentUser(presented.token, now, users)
    IN  IF auth.status # 200 THEN Denied(req, auth)
        ELSE
           /\ IF OwnTask(auth.user, task_id) = {}
              THEN resp' = [Answer(req, 404, "Task not found")
                              EXCEPT !.user = auth.user]
              ELSE resp' = [Answer(req, 200, "") EXCEPT
                              !.user = auth.user,
                              !.tasks = OwnTask(auth.user, task_id)]
           /\ UNCHANGED <<users, tasks, now, pc>>

UpdateTask(presented, task_id, title, description, completed) ==
    LET req == [TaskRequest("update_task", presented) EXCEPT !.task_id = task_id]
        auth == GetCurrentUser(presented.token, now, users)
    IN  IF auth.status # 200 THEN Denied(req, auth)
        ELSE
           /\ IF OwnTask(auth.user, task_id) = {}
              THEN /\ resp' = [Answer(req, 404, "Task not found")
                                 EXCEPT !.user = auth.user]
                   /\ tasks' = tasks
              ELSE LET task == CHOOSE t \in OwnTask(auth.user, task_id) : TRUE
                       updated ==
                           [task EXCEPT
                              !.title = IF title # Unset THEN title ELSE @,
                              !.description =
                                  IF description # Unset THEN description ELSE @,
                              !.completed =
                                  IF completed # "None" THEN completed = "True"
                                  ELSE @]
                   IN  /\ tasks' = (tasks \ {task}) \cup {updated}
                       /\ resp' = [Answer(req, 200, "") EXCEPT
                                     !.user = auth.user, !.tasks = {updated}]
           /\ UNCHANGED <<users, now, pc>>

DeleteTask(presented, task_id) ==
    LET req == [TaskRequest("delete_task", presented) EXCEPT !.task_id = task_id]
        auth == GetCurrentUser(presented.token, now, users)
    IN  IF auth.status # 200 THEN Denied(req, auth)
        ELSE
           /\ IF OwnTask(auth.user, task_id) = {}
              THEN /\ resp' = [Answer(req, 404, "Task not found")
                                 EXCEPT !.user = auth.user]
                   /\ tasks' = tasks
              ELSE /\ tasks' = tasks \ OwnTask(auth.user, task_id)
                   /\ resp' = [Answer(req, 200, "") EXCEPT
                                 !.user = auth.user,
                                 !.body = [message |-> "Task deleted successfully"]]
           /\ UNCHANGED <<users, now, pc>>

ToggleTaskComplete(presented, task_id) ==
    LET req == [TaskRequest("toggle_task_complete", presented)
                   EXCEPT !.task_id = task_id]
        auth == GetCurrentUser(presented.token, now, users)
    IN  IF auth.status # 200 THEN Denied(req, auth)
        ELSE
           /\ IF OwnTask(auth.user, task_id) = {}
              THEN /\ resp' = [Answer(req, 404, "Task not found")
                                 EXCEPT !.user = auth.user]
                   /\ tasks' = tasks
              ELSE LET task == CHOOSE t \in OwnTask(auth.user, task_id) : TRUE
                       toggled == [task EXCEPT !.completed = ~task.completed]
                   IN  /\ tasks' = (tasks \ {task}) \cup {toggled}
                       /\ resp' = [Answer(req, 200, "") EXCEPT
                                     !.user = auth.user, !.tasks = {toggled}]
           /\ UNCHANGED <<users, now, pc>>

(* get_completed_task (completed = TRUE) and get_incomplete_tasks (FALSE). *)
GetByCompletion(op, presented, completed) ==
    LET req == TaskRequest(op, presented)
        auth == GetCurrentUser(presented.token, now, users)
    IN  IF auth.status # 200 THEN Denied(req, auth)
        ELSE
           /\ resp' = [Answer(req, 200, "") EXCEPT
                         !.user = auth.user,
                         !.tasks = {t \in OwnedBy(auth.user) :
                                       t.completed = completed}]
           /\ UNCHANGED <<users, tasks, now, pc>>

GetCompletedTask(presented) ==
    GetByCompletion("get_completed_task", presented, TRUE)

GetIncompleteTasks(presented) ==
    GetByCompletion("get_incomplete_tasks", presented, FALSE)

(* The try block of search_tasks: the rows found, or the 404 it raises. *)
SearchTasksBody(user, query, case_sensitive, search_by) ==
    LET found ==
            {t \in OwnedBy(user) :
                \/ search_by \in {"title", "all"}
                     /\ Matches(t.title, query, case_sensitive)
                \/ search_by \in {"description", "all"}
                     /\ Matches(t.description, query, case_sensitive)}
    IN  IF found = {}
        THEN [raised |-> "HTTPException", status |-> 404,
              detail |-> "No tasks found matching your search criteria",
              tasks |-> {}]
        ELSE [raised |-> "", status |-> 200, detail |-> "", tasks |-> found]

SearchTasks(presented, query, case_sensitive, search_by) ==
    LET req == [TaskRequest("search_tasks", presented) EXCEPT
                   !.query = query, !.case_sensitive = case_sensitive,
                   !.search_by = search_by]
        auth == GetCurrentUser(presented.token, now, users)
        r == SearchTasksBody(auth.user, query, case_sensitive, search_by)
    IN  IF auth.status # 200 THEN Denied(req, auth)
        ELSE
           /\ IF search_by \notin {"all", "title", "description"}
              THEN resp' = [Answer(req, 400,
                               "search_by must be 'all', 'title', or 'description'")
                              EXCEPT !.user = auth.user]
              ELSE IF r.raised # ""
              THEN resp' = [Answer(req, 500, "An error occurred during search")
                              EXCEPT !.user = auth.user]
              ELSE resp' = [Answer(req, 200, "") EXCEPT
                              !.user = auth.user, !.tasks = r.tasks]
           /\ UNCHANGED <<users, tasks, now, pc>>

(* offset(skip).limit(limit) without ORDER BY: any limit rows of those     *)
(* left after skipping skip rows, in an order the database chooses.        *)
GetPaginatedTask(presented, skip, limit) ==
    LET req == TaskRequest("get_paginated_task", presented)
        auth == GetCurrentUser(presented.token, now, users)
        owned == OwnedBy(auth.user)
        left == IF Cardinality(owned) > skip THEN Cardinality(owned) - skip ELSE 0
        count == IF limit < left THEN limit ELSE left
    IN  IF auth.status # 200 THEN Denied(req, auth)
        ELSE
           /\ \E page \in SUBSET owned :
                /\ Cardinality(page) = count
                /\ resp' = [Answer(req, 200, "") EXCEPT
                              !.user = auth.user, !.tasks = page]
           /\ UNCHANGED <<users, tasks, now, pc>>

GetTaskStats(presented) ==
    LET req == TaskRequest("get_task_stats", presented)
        auth == GetCurrentUser(presented.token, now, users)
        total_tasks == Cardinality(OwnedBy(auth.user))
        completed_tasks == Cardinality({t \in OwnedBy(auth.user) : t.completed})
    IN  IF auth.status # 200 THEN Denied(req, auth)
        ELSE
           /\ resp' = [Answer(req, 200, "") EXCEPT
                         !.user = auth.user,
                         !.body = [total_tasks |-> total_tasks,
                                   completed_tasks |-> completed_tasks,
                                   incomplete_tasks |->
                                       total_tasks - completed_tasks,
                                   completion_rate |->
                                       IF total_tasks > 0
                                       THEN ((completed_tasks * 100000)
                                               \div total_tasks + 5) \div 10
                                       ELSE 0]]
           /\ UNCHANGED <<users, tasks, now, pc>>

(* The clock moves forward. *)
Tick ==
    /\ \E t \in Instants : t > now /\ now' = t
    /\ UNCHANGED <<users, tasks, pc, resp>>

Next ==
    \/ \E w \in Workers, u \in Names, p \in Passwords : RegisterCheck(w, u, p)
    \/ \E w \in Workers : RegisterCommit(w)
    \/ \E u \in Subjects, p \in Passwords : Login(u, p)
    \/ \E presented \in Presentable : RefreshToken(presented)
    \/ \E presented \in Presentable : GetTask(presented)
    \/ Tick

Spec == Init /\ [][Next]_vars

(***************************************************************************)
(* The task router, from the state in which alice and bob are registered.  *)
(***************************************************************************)
InitTasks ==
    /\ users = <<[id |-> 1, username |-> "alice",
                  hashed_password |-> HashPassword("secret1", "salt")],
                 [id |-> 2, username |-> "bob",
                  hashed_password |-> HashPassword("hunter22", "salt")]>>
    /\ tasks = {}
    /\ now = 0
    /\ pc = [w \in Workers |-> Idle]
    /\ resp = NoResp

NextTasks ==
    \/ \E k \in TaskTokens, t \in Titles, d \in Descriptions, c \in BOOLEAN :
          CreateTask(k, t, d, c)
    \/ \E k \in TaskTokens \cup RefusedTokens : GetTask(k)
    \/ \E k \in TaskTokens \cup RefusedTokens, id \in TaskIds : GetTaskById(k, id)
    \/ \E k \in TaskTokens, id \in TaskIds, u \in TaskUpdates :
          UpdateTask(k, id, u.title, u.description, u.completed)
    \/ \E k \in TaskTokens, id \in TaskIds : DeleteTask(k, id)
    \/ \E k \in TaskTokens, id \in TaskIds : ToggleTaskComplete(k, id)
    \/ \E k \in TaskTokens : GetCompletedTask(k)
    \/ \E k \in TaskTokens : GetIncompleteTasks(k)
    \/ \E k \in TaskTokens, r \in SearchRequests :
          SearchTasks(k, r[1], r[2], r[3])
    \/ \E k \in TaskTokens, skip \in 0..1, limit \in PageLimits :
          GetPaginatedTask(k, skip, limit)
    \/ \E k \in TaskTokens : GetTaskStats(k)

SpecTasks == InitTasks /\ [][NextTasks]_vars

(***************************************************************************)
(* Vocabulary of the properties.                                           *)
(***************************************************************************)
ProtectedOps ==
    {"create_task", "get_task", "get_task_by_id", "update_task", "delete_task",
     "toggle_task_complete", "get_completed_task", "get_incomplete_tasks",
     "search_tasks", "get_paginated_task", "get_task_stats"}

(* A record of that name was in the users table the handler of r saw. *)
KnownAt(r, username) ==
    \E i \in 1..r.nusers : users[i].username = username

(* Validly signed and not expired when the request was handled. *)
GoodAt(r) == r.token.sig /\ r.token.exp >= r.at \div TicksPerSecond

(***************************************************************************)
(* C1.  Token kinds are never interchangeable: get_current_user never      *)
(* returns a user for a token whose type claim is not "access", and the    *)
(* refresh-token endpoint never succeeds for a token whose type claim is   *)
(* not "refresh", whatever the signature, the expiry and the subject.      *)
(***************************************************************************)
C1_TokenKindsNotInterchangeable ==
    /\ (resp.op \in ProtectedOps /\ resp.token.type # "access")
         => (resp.status # 200 /\ resp.user = NoUser)
    /\ (resp.op = "refresh_token" /\ resp.token.type # "refresh")
         => (resp.status # 200 /\ DOMAIN resp.body = {})

(* An access token the server minted itself, unexpired and of a registered *)
(* user, was presented to the refresh endpoint and refused.                *)
C1_Witness ==
    /\ resp.op = "refresh_token"
    /\ resp.minted >= 0
    /\ resp.token.type = "access"
    /\ GoodAt(resp)
    /\ KnownAt(resp, resp.token.sub)
    /\ resp.status = 401
    /\ resp.detail = "Invalid token type"

(***************************************************************************)
(* C2.  A protected endpoint called with a validly signed, unexpired       *)
(* refresh token of an existing user answers 401 "Invalid token type".     *)
(***************************************************************************)
C2_RefreshTokenRejectedWith401 ==
    (/\ resp.op \in ProtectedOps
     /\ GoodAt(resp)
     /\ resp.token.type = "refresh"
     /\ KnownAt(resp, resp.token.sub))
    => (resp.status = 401 /\ resp.detail = "Invalid token type")

(***************************************************************************)
(* C3.  A validly signed, unexpired access token whose subject has no user *)
(* record fails with the same 401 "Could not validate credentials" as a    *)
(* malformed or expired token.                                             *)
(***************************************************************************)
C3_MissingUserLooksLikeBadToken ==
    (/\ resp.op \in ProtectedOps
     /\ GoodAt(resp)
     /\ resp.token.type = "access"
     /\ resp.token.sub # NONE
     /\ ~KnownAt(resp, resp.token.sub))
    => (resp.status = 401 /\ resp.detail = "Could not validate credentials")

(***************************************************************************)
(* C4.  The users table never holds two records with the same username,    *)
(* whatever the interleaving of register requests.                         *)
(***************************************************************************)
C4_UniqueUsernames ==
    \A i, j \in 1..Len(users) :
        users[i].username = users[j].username => i = j

(***************************************************************************)
(* C5.  A successful registration (username of at least 3 characters,      *)
(* password of at least 6, username not taken when checked) returns        *)
(* message, username, an access token for that username, and tokenType.    *)
(***************************************************************************)
C5_RegisterReturnsAccessToken ==
    (/\ resp.op = "register"
     /\ Len(resp.username) >= 3
     /\ Len(resp.password) >= 6
     /\ resp.user # NoUser)
    => /\ resp.status = 200
       /\ {"message", "username", "access_token", "token_type"}
              \subseteq DOMAIN resp.body
       /\ resp.body["username"] = resp.username
       /\ resp.body["access_token"].sub = resp.username
       /\ resp.body["access_token"].type = "access"

(***************************************************************************)
(* C6.  Login succeeds and issues tokens for u exactly when a user record  *)
(* for u exists whose stored hash the password verifies against; otherwise *)
(* it answers the one 401 "Incorrect username or password" and issues no   *)
(* token.                                                                  *)
(***************************************************************************)
C6_LoginIffCredentialsMatch ==
    resp.op = "login" =>
        LET matches == \E i \in 1..resp.nusers :
                          /\ users[i].username = resp.username
                          /\ users[i].hashed_password.digest = resp.password
        IN  /\ (resp.status = 200) <=> matches
            /\ resp.status = 200 => "access_token" \in DOMAIN resp.body
            /\ resp.status # 200 =>
                  /\ resp.status = 401
                  /\ resp.detail = "Incorrect username or password"
                  /\ DOMAIN resp.body = {}

(***************************************************************************)
(* C7.  The response of a successful login carries accessToken,            *)
(* refreshToken, tokenType and username.                                   *)
(***************************************************************************)
C7_LoginResponseCarriesRefreshToken ==
    (resp.op = "login" /\ resp.status = 200)
    => {"access_token", "refresh_token", "token_type", "username"}
           \subseteq DOMAIN resp.body

(***************************************************************************)
(* C8.  Refresh is reusable and stateless: every refresh-token call with a *)
(* validly signed, unexpired refresh token of an existing user succeeds,   *)
(* however often the token was used before, and mints an access token for  *)
(* the same subject; no call changes the token or any table.               *)
(***************************************************************************)
C8_Step ==
    (resp'.op = "refresh_token" /\ resp' # resp)
    => /\ users' = users
       /\ tasks' = tasks
       /\ (/\ resp'.token.sig
           /\ resp'.token.exp >= now \div TicksPerSecond
           /\ resp'.token.type = "refresh"
           /\ GetUserByUsername(users, resp'.token.sub) # NoUser)
          => /\ resp'.status = 200
             /\ resp'.body["access_token"].sub = resp'.token.sub
             /\ resp'.body["access_token"].type = "access"
             /\ resp'.body["access_token"].sig
             /\ resp'.body["access_token"].exp
                  = (now + AccessTTL) \div TicksPerSecond
             /\ resp.op = "refresh_token" /\ resp.status = 200
                  /\ resp.token = resp'.token => resp'.uses > 1

(* C8: every step that answers a refresh-token request satisfies C8_Step. *)
C8_RefreshReusableAndStateless == [][C8_Step]_vars

(* The same refresh token has just been accepted a second time in a row. *)
C8_Witness ==
    /\ resp.op = "refresh_token"
    /\ resp.status = 200
    /\ resp.uses >= 2
    /\ resp.token.type = "refresh"
    /\ "access_token" \in DOMAIN resp.body

(***************************************************************************)
(* C9 as stated.  An access token minted at t with lifetime d is accepted  *)
(* at every time before t + d and rejected with 401 at every time strictly *)
(* after t + d; a refresh token is accepted only before its expiry.        *)
(***************************************************************************)
C9_RejectedStrictlyAfterExpiry ==
    /\ (resp.op \in ProtectedOps /\ resp.minted >= 0)
         => /\ resp.at < resp.minted + AccessTTL => resp.user # NoUser
            /\ resp.at > resp.minted + AccessTTL => resp.status = 401
    /\ (resp.op = "refresh_token" /\ resp.status = 200)
         => resp.at <= resp.token.exp * TicksPerSecond

(***************************************************************************)
(* C9 as amended.  Expiry is compared in whole seconds: an access token    *)
(* minted at t with lifetime d is accepted at every time before t + d and  *)
(* rejected with 401 at every time whose whole second is later than the    *)
(* whole second of t + d; a refresh token is accepted only while the whole *)
(* second of the clock is not later than its exp claim.  A token rejected  *)
(* as expired is not accepted at any later time.                           *)
(***************************************************************************)
C9_ValidityBoundedByExpirySecond ==
    /\ (resp.op \in ProtectedOps /\ resp.minted >= 0)
         => /\ resp.at < resp.minted + AccessTTL => resp.user # NoUser
            /\ resp.at \div TicksPerSecond
                   > (resp.minted + AccessTTL) \div TicksPerSecond
                 => (resp.status = 401 /\ resp.user = NoUser)
    /\ (resp.op = "refresh_token" /\ resp.status = 200)
         => resp.at \div TicksPerSecond <= resp.token.exp
    /\ (/\ resp.op \in ProtectedOps \cup {"refresh_token"}
        /\ resp.token.sig
        /\ resp.token.exp < resp.at \div TicksPerSecond)
         => /\ resp.status = 401
            /\ GetCurrentUser(resp.token, now, users).status = 401
            /\ ValidateRefreshToken(resp.token, now).status = 401

(* An access token the server minted is refused once its second is past. *)
C9_Witness ==
    /\ resp.op \in ProtectedOps
    /\ resp.minted >= 0
    /\ resp.at \div TicksPerSecond > (resp.minted + AccessTTL) \div TicksPerSecond
    /\ resp.status = 401

(***************************************************************************)
(* C10.  Task operations are owner-scoped.  In every request of the task   *)
(* router made by an authenticated user A: every task returned is owned by *)
(* A, a created task is owned by A, the tasks of every other owner are     *)
(* left as they were, and a request naming the id of a task owned by       *)
(* another user answers 404 and changes nothing.  A refused request        *)
(* returns no task and changes nothing.                                    *)
(***************************************************************************)
C10_Step ==
    LET A == resp'.user
        others(table) == {t \in table : t.owner_id # A.id}
    IN  resp'.op \in ProtectedOps =>
          /\ \A t \in resp'.tasks : A # NoUser /\ t.owner_id = A.id
          /\ others(tasks') = others(tasks)
          /\ A = NoUser => tasks' = tasks
          /\ (resp'.op = "create_task" /\ resp'.status = 200)
               => /\ tasks' \ tasks = resp'.tasks
                  /\ \A t \in tasks' \ tasks : t.owner_id = A.id
          /\ (/\ A # NoUser
              /\ resp'.op \in {"get_task_by_id", "update_task", "delete_task",
                               "toggle_task_complete"}
              /\ \E t \in tasks : t.id = resp'.task_id /\ t.owner_id # A.id)
               => /\ resp'.status = 404
                  /\ resp'.tasks = {}
                  /\ tasks' = tasks

(* C10: every step of the task router satisfies C10_Step. *)
C10_TaskOperationsOwnerScoped == [][C10_Step]_vars

(* A user named the id of another user's task in a write and got 404. *)
C10_Witness ==
    /\ resp.op \in {"update_task", "delete_task", "toggle_task_complete"}
    /\ resp.user # NoUser
    /\ \E t \in tasks : t.id = resp.task_id /\ t.owner_id # resp.user.id
    /\ \E t \in tasks : t.owner_id = resp.user.id
    /\ resp.status = 404

(***************************************************************************)
(* C11.  Per-owner title uniqueness is an invariant of the task store: no  *)
(* two tasks of one owner have the same title, after any sequence of       *)
(* create_task, update_task, delete_task and toggle_task_complete; a       *)
(* create_task refused with 400 names a title the caller already has.      *)
(***************************************************************************)
C11_TitlesUniquePerOwner ==
    /\ \A t, o \in tasks :
          (t.owner_id = o.owner_id /\ t.title = o.title) => t.id = o.id
    /\ (resp.op = "create_task" /\ resp.status = 400)
          => \E t \in tasks : t.owner_id = resp.user.id

(***************************************************************************)
(* C12.  search_tasks with a valid search_by and a query that matches none *)
(* of the caller's tasks answers 404 "No tasks found matching your search  *)
(* criteria"; it answers 500 only when the search itself faults.           *)
(***************************************************************************)
C12_NoMatchAnswers404 ==
    (/\ resp.op = "search_tasks"
     /\ resp.user # NoUser
     /\ resp.search_by \in {"all", "title", "description"}
     /\ \A t \in tasks :
           t.owner_id = resp.user.id =>
              /\ resp.search_by \in {"all", "title"}
                    => ~Matches(t.title, resp.query, resp.case_sensitive)
              /\ resp.search_by \in {"all", "description"}
                    => ~Matches(t.description, resp.query, resp.case_sensitive))
    => (resp.status = 404 /\ resp.tasks = {})

====
